---- MODULE Spec2Model ----
(***************************************************************************)
(* Model of the Microplate dataclass (src/microplate/microplate.py): the   *)
(* well table self.df built by __post_init__, add_samples and              *)
(* print_matrix.  The pandas calls are modelled by what they do to the     *)
(* rows of the table: isin/map/loc assignment, merge(how='left'), fillna,  *)
(* drop and values.reshape.                                                *)
(***************************************************************************)
EXTENDS Integers, Sequences, FiniteSets, TLC

VARIABLES rows, cols, plate_name, plate_id, df, constructed, last, stdout

vars == <<rows, cols, plate_name, plate_id, df, constructed, last, stdout>>

(* ------------------------------ bounds -------------------------------- *)

\* Largest plate of the main specification.
MaxRows == 2
MaxCols == 2
\* Largest number of keys of a mapping passed to add_samples.
MaxDictKeys == 1
\* Largest number of rows of a table passed to add_samples.
MaxTableRows == 2
\* Records a plate may hold beyond rows*cols before the model stops merging.
MaxExtraWells == 1
\* Largest column count of the construction-only specification.
MaxConstructCols == 12

(* --------------------------- Python values ---------------------------- *)

\* Python objects held in a cell: None, float('nan') and str.
None == <<"None">>
NaN == <<"float", "nan">>
Str(s) == <<"str", s>>

\* pandas.isna on a scalar.
isna(x) == x = None \/ x = NaN

\* str(x) for the objects above.
str(x) == IF x = None THEN "None" ELSE IF x = NaN THEN "nan" ELSE x[2]

\* chr(65 + row) for the rows whose label is a letter (row in 0..25).
chr65(row) ==
    <<"A", "B", "C", "D", "E", "F", "G", "H", "I", "J", "K", "L", "M",
      "N", "O", "P", "Q", "R", "S", "T", "U", "V", "W", "X", "Y", "Z">>[row + 1]

\* The row counts for which every chr(65 + row) is a letter.
LetterRows == 1..26

\* One decimal digit.
Digit(d) == <<"0", "1", "2", "3", "4", "5", "6", "7", "8", "9">>[d + 1]

\* f"{n}" for a non-negative int.
RECURSIVE IntStr(_)
IntStr(n) == IF n < 10 THEN Digit(n) ELSE IntStr(n \div 10) \o Digit(n % 10)

\* f"{row_letter}{col}"
WellIndex(row, col) == chr65(row) \o IntStr(col)

(* --------------------------- __post_init__ ---------------------------- *)

\* One pass of the inner loop: the records of column col for row, row+1, ..
RECURSIVE RowLoop(_, _, _, _, _)
RowLoop(row, col, r, name, id) ==
    IF row >= r THEN <<>>
    ELSE << [plate_name |-> name,
             plate_id   |-> id,
             well_index |-> WellIndex(row, col),
             row        |-> chr65(row),
             column     |-> col,
             sample_id  |-> None] >>
         \o RowLoop(row + 1, col, r, name, id)

\* The outer loop: columns col, col+1, .., c.
RECURSIVE ColLoop(_, _, _, _, _)
ColLoop(col, r, c, name, id) ==
    IF col > c THEN <<>>
    ELSE RowLoop(0, col, r, name, id) \o ColLoop(col + 1, r, c, name, id)

\* Variant: the loops nested the other way round (rows outer, columns inner).
BaseFrameRowMajor(r, c, name, id) ==
    [k \in 1..(r * c) |->
        [plate_name |-> name,
         plate_id   |-> id,
         well_index |-> WellIndex((k - 1) \div c, ((k - 1) % c) + 1),
         row        |-> chr65((k - 1) \div c),
         column     |-> ((k - 1) % c) + 1,
         sample_id  |-> None]]

\* The base dataframe.
BaseFrame(r, c, name, id) == ColLoop(1, r, c, name, id)

(* ---------------------------- add_samples ----------------------------- *)

\* The three ways add_samples may end.
Returned(frame, out) == [df |-> frame, raised |-> "", out |-> out]
Raised(frame, exc) == [df |-> frame, raised |-> exc, out |-> <<>>]

\* Variant: df['sample_id'] = df['well_index'].map(d) on the whole column, so
\* that a well that is no key gets NaN.
assign_dict_whole_column(frame, items) ==
    [k \in DOMAIN frame |->
        [frame[k] EXCEPT !.sample_id =
            IF frame[k].well_index \in DOMAIN items
            THEN items[frame[k].well_index] ELSE NaN]]

\* df.loc[df['well_index'].isin(d.keys()), 'sample_id'] =
\*     df.loc[df['well_index'].isin(d.keys()), 'well_index'].map(d)
assign_dict(frame, items) ==
    [k \in DOMAIN frame |->
        IF frame[k].well_index \in DOMAIN items
        THEN [frame[k] EXCEPT !.sample_id = items[frame[k].well_index]]
        ELSE frame[k]]

\* Column selection raises KeyError when the table lacks a selected column.
lacks_selected(columns) == ~({"well_index", "sample_id"} \subseteq columns)

\* sample_ids[['well_index', 'sample_id']]
select_columns(table_rows) ==
    [i \in DOMAIN table_rows |->
        [well_index |-> table_rows[i].well_index,
         sample_id  |-> table_rows[i].sample_id]]

\* One record of the merged frame: the left record and the right sample_id
\* under the suffixed name.
Joined(l, new) ==
    [plate_name |-> l.plate_name, plate_id |-> l.plate_id,
     well_index |-> l.well_index, row |-> l.row, column |-> l.column,
     sample_id |-> l.sample_id, sample_id_new |-> new]

\* The rows a left join produces: left order kept; a left record with no
\* right row gets NaN, one with several right rows is repeated once per row,
\* in the right's order.
RECURSIVE left_join(_, _)
left_join(left, right) ==
    IF left = <<>> THEN <<>>
    ELSE LET l == Head(left)
             m == SelectSeq(right, LAMBDA x : x.well_index = l.well_index)
         IN  (IF m = <<>> THEN << Joined(l, NaN) >>
              ELSE [i \in 1..Len(m) |-> Joined(l, m[i].sample_id)])
             \o left_join(Tail(left), right)

\* Variant: how='outer', which appends the right rows that match no left
\* record, their left columns NaN.
merge_outer(left, right) ==
    left_join(left, right)
    \o LET extra == SelectSeq(right,
                     LAMBDA x : \A k \in DOMAIN left : left[k].well_index # x.well_index)
       IN  [i \in 1..Len(extra) |->
               [plate_name |-> NaN, plate_id |-> NaN,
                well_index |-> extra[i].well_index, row |-> NaN, column |-> NaN,
                sample_id |-> NaN, sample_id_new |-> extra[i].sample_id]]

\* pd.merge(left, right, on='well_index', how='left', suffixes=('', '_new'))
merge_left(left, right) == left_join(left, right)

\* Variant: df['sample_id'] = df['sample_id_new'], without the fillna.
no_fillna_drop(merged) ==
    [k \in DOMAIN merged |->
        [plate_name |-> merged[k].plate_name, plate_id |-> merged[k].plate_id,
         well_index |-> merged[k].well_index, row |-> merged[k].row,
         column |-> merged[k].column,
         sample_id |-> merged[k].sample_id_new]]

\* df['sample_id'] = df['sample_id_new'].fillna(df['sample_id']), then
\* df.drop('sample_id_new', axis=1).
fillna_drop(merged) ==
    [k \in DOMAIN merged |->
        [plate_name |-> merged[k].plate_name, plate_id |-> merged[k].plate_id,
         well_index |-> merged[k].well_index, row |-> merged[k].row,
         column |-> merged[k].column,
         sample_id |-> IF isna(merged[k].sample_id_new)
                       THEN merged[k].sample_id
                       ELSE merged[k].sample_id_new]]

\* The DataFrame branch after the column check.
assign_table(frame, table_rows) ==
    fillna_drop(merge_left(frame, select_columns(table_rows)))

\* Variant: 'and' in place of 'or'.
missing_both_columns(columns) ==
    "well_index" \notin columns /\ "sample_id" \notin columns

\* 'well_index' not in columns or 'sample_id' not in columns
missing_column(columns) ==
    "well_index" \notin columns \/ "sample_id" \notin columns

\* Microplate.add_samples on the frame.
add_samples(frame, src) ==
    IF src.type = "NoneType"
    THEN Returned(frame, << "No samples provided." >>)
    ELSE IF src.type = "dict"
    THEN Returned(assign_dict(frame, src.items), <<>>)
    ELSE IF src.type = "DataFrame"
    THEN IF missing_column(src.columns)
         THEN Raised(frame, "ValueError")
         ELSE IF lacks_selected(src.columns)
         THEN Raised(frame, "KeyError")
         ELSE Returned(assign_table(frame, src.rows), <<>>)
    ELSE Returned(frame,
                  << "Invalid input type. Expected a dictionary or DataFrame." >>)

(* ---------------------------- print_matrix ---------------------------- *)

\* n spaces.
RECURSIVE Spaces(_)
Spaces(n) == IF n <= 0 THEN "" ELSE " " \o Spaces(n - 1)

\* The field width of the format specs: program constant.
FieldWidth == 10

\* f"{s:^10}": the padding is split with the smaller half on the left; a
\* longer text is not cut.
Center(s) ==
    LET pad == FieldWidth - Len(s)
    IN  IF pad <= 0 THEN s
        ELSE Spaces(pad \div 2) \o s \o Spaces(pad - (pad \div 2))

\* " ".join(fields)
RECURSIVE Join(_)
Join(fields) ==
    IF fields = <<>> THEN ""
    ELSE IF Len(fields) = 1 THEN fields[1]
    ELSE fields[1] \o " " \o Join(Tail(fields))

\* df['sample_id'].values.reshape(rows, cols): row i (0-based) of the matrix
\* is the i-th run of cols consecutive values.
reshape(values, r, c) ==
    [i \in 1..r |-> [j \in 1..c |-> values[(i - 1) * c + j]]]

\* f"{str(x):^10}" if x is not None else "    -     "
Field(x) == IF x # None THEN Center(str(x)) ELSE "    -     "

\* Microplate.print_matrix: the lines printed, or the reshape's ValueError.
print_matrix(frame, r, c, name, id) ==
    IF Len(frame) # r * c
    THEN [raised |-> "ValueError", out |-> <<>>]
    ELSE LET matrix == reshape([k \in DOMAIN frame |-> frame[k].sample_id], r, c)
         IN  [raised |-> "",
              out |-> << "Plate Name: " \o str(name),
                         "Plate ID: " \o str(id),
                         "   " \o Join([i \in 1..c |-> Center(IntStr(i))]) >>
                      \o [i \in 1..r |->
                            chr65(i - 1) \o "  "
                            \o Join([j \in 1..c |-> Field(matrix[i][j])])]]

(* ------------------------------ inputs -------------------------------- *)

\* Plate labels and sample identifiers the callers pass.
PlateNames == {Str("P1")}
PlateIds == {None}
SampleIds == {Str("S1"), Str("S2")}

\* A cell of a table's sample_id column: an identifier or a null.
TableCells == SampleIds \cup {NaN}

\* A well index that is on no plate of the model.
OffPlate == "Z9"

\* The well indexes a caller may name for an r x c plate.
Names(r, c) == {WellIndex(i, j) : i \in 0..(r - 1), j \in 1..c} \cup {OffPlate}

\* sample_ids = None
NoSource == [type |-> "NoneType"]

\* sample_ids of a type add_samples does not know.
InvalidSource == [type |-> "int"]

\* Mappings of at most MaxDictKeys well indexes to identifiers.
DictSources(names) ==
    {[type |-> "dict", items |-> f] :
        f \in UNION {[K -> SampleIds] :
                        K \in {K \in SUBSET names : Cardinality(K) <= MaxDictKeys}}}

\* The column sets of the tables: the two columns add_samples needs, the same
\* with a plate_name column of the table's own, and each needed column missing.
ColumnSets ==
    {{"well_index", "sample_id"}, {"well_index", "sample_id", "plate_name"},
     {"well_index"}, {"sample_id", "plate_name"}}

\* The rows a table with these columns may hold.
TableRows(columns, names) ==
    {[col \in columns |->
         IF col = "well_index" THEN w
         ELSE IF col = "sample_id" THEN x
         ELSE Str("PX")] : w \in names, x \in TableCells}

\* Sequences of at most n elements of S.
SeqsUpTo(S, n) == UNION {[1..m -> S] : m \in 0..n}

\* Tables of at most MaxTableRows rows.
TableSources(names) ==
    UNION {{[type |-> "DataFrame", columns |-> columns, rows |-> rs] :
               rs \in SeqsUpTo(TableRows(columns, names), MaxTableRows)} :
           columns \in ColumnSets}

(* --------------------------- state machine ---------------------------- *)

\* What the call just made was, what it was given and whether it raised.
Call(op, src, raised) == [op |-> op, src |-> src, raised |-> raised]

\* The caller is between two calls.
Idle == Call("none", NoSource, "")

\* No Microplate object yet.
Init ==
    /\ rows = 0
    /\ cols = 0
    /\ plate_name = None
    /\ plate_id = None
    /\ df = <<>>
    /\ constructed = FALSE
    /\ last = Idle
    /\ stdout = <<>>

\* len(self.df[column].unique()) > 1
inconsistent(frame, column) ==
    Cardinality({frame[k][column] : k \in DOMAIN frame}) > 1

\* Microplate(rows=r, cols=c, plate_name=name, plate_id=id, sample_ids=src):
\* the generated __init__ and __post_init__.  An exception leaves no object.
ConstructOp(r, c, name, id, src) ==
    /\ LET res == add_samples(BaseFrame(r, c, name, id), src)
           exc == IF res.raised # "" THEN res.raised
                  ELSE IF inconsistent(res.df, "plate_name") THEN "ValueError"
                  ELSE IF inconsistent(res.df, "plate_id") THEN "ValueError"
                  ELSE ""
       IN  /\ last' = Call("__post_init__", src, exc)
           /\ stdout' = res.out
           /\ IF exc # ""
              THEN UNCHANGED <<rows, cols, plate_name, plate_id, df, constructed>>
              ELSE /\ rows' = r
                   /\ cols' = c
                   /\ plate_name' = name
                   /\ plate_id' = id
                   /\ df' = res.df
                   /\ constructed' = TRUE

\* The sources a caller may pass for an r x c plate.
Sources(r, c) ==
    {NoSource, InvalidSource} \cup DictSources(Names(r, c)) \cup TableSources(Names(r, c))

\* No object yet, and the caller is free to make a call.
CanConstruct == last = Idle /\ ~constructed

\* The object exists, and the caller is free to make a call.
CanCall == last = Idle /\ constructed

Construct ==
    /\ CanConstruct
    /\ \E r \in 1..MaxRows, c \in 1..MaxCols, name \in PlateNames, id \in PlateIds :
          \E src \in Sources(r, c) : ConstructOp(r, c, name, id, src)

\* plate.add_samples(src) on the constructed plate.
AddSamplesOp(src) ==
    /\ LET res == add_samples(df, src)
       IN  /\ Len(res.df) <= rows * cols + MaxExtraWells
           /\ df' = res.df
           /\ last' = Call("add_samples", src, res.raised)
           /\ stdout' = res.out
    /\ UNCHANGED <<rows, cols, plate_name, plate_id, constructed>>

AddNone == CanCall /\ AddSamplesOp(NoSource)

AddDict ==
    CanCall /\ \E src \in DictSources(Names(rows, cols)) : AddSamplesOp(src)

AddTable ==
    CanCall /\ \E src \in TableSources(Names(rows, cols)) : AddSamplesOp(src)

AddInvalid == CanCall /\ AddSamplesOp(InvalidSource)

\* plate.print_matrix()
PrintMatrix ==
    /\ CanCall
    /\ LET res == print_matrix(df, rows, cols, plate_name, plate_id)
       IN  /\ last' = Call("print_matrix", NoSource, res.raised)
           /\ stdout' = res.out
    /\ UNCHANGED <<rows, cols, plate_name, plate_id, df, constructed>>

\* The caller has seen the outcome of its call and goes on to the next one.
Resume ==
    /\ last # Idle
    /\ last' = Idle
    /\ stdout' = <<>>
    /\ UNCHANGED <<rows, cols, plate_name, plate_id, df, constructed>>

Next ==
    Construct \/ AddNone \/ AddDict \/ AddTable \/ AddInvalid \/ PrintMatrix \/ Resume

Spec == Init /\ [][Next]_vars

\* Construction alone, for every plate whose row labels are letters.
ConstructLarge ==
    /\ CanConstruct
    /\ \E r \in LetterRows, c \in 1..MaxConstructCols :
          ConstructOp(r, c, None, None, NoSource)

NextConstruct == ConstructLarge \/ Resume

SpecConstruct == Init /\ [][NextConstruct]_vars

(* ------------------------------ claims -------------------------------- *)

\* The sample_id values of the records of well w, in table order.
SampleSeq(frame, w) ==
    LET sel == SelectSeq(frame, LAMBDA x : x.well_index = w)
    IN  [i \in 1..Len(sel) |-> sel[i].sample_id]

\* The same as a set.
SampleSet(frame, w) ==
    {frame[k].sample_id : k \in {k \in DOMAIN frame : frame[k].well_index = w}}

\* The sample_id of the one record of well w.
SampleOf(w) == df[CHOOSE k \in DOMAIN df : df[k].well_index = w].sample_id

\* The well indexes of the records the plate holds.
PlateWells(frame) == {frame[k].well_index : k \in DOMAIN frame}

\* A table with both needed columns; a table lacking one.
HasBoth(src) ==
    src.type = "DataFrame" /\ {"well_index", "sample_id"} \subseteq src.columns
LacksOne(src) ==
    src.type = "DataFrame" /\ ~({"well_index", "sample_id"} \subseteq src.columns)

\* The source names well w: as a key, or in a row.
Matches(src, w) ==
    \/ src.type = "dict" /\ w \in DOMAIN src.items
    \/ HasBoth(src) /\ \E i \in DOMAIN src.rows : src.rows[i].well_index = w

\* The non-null values the source gives for well w.
PresentValues(src, w) ==
    IF src.type = "dict"
    THEN (IF w \in DOMAIN src.items THEN {src.items[w]} ELSE {})
    ELSE IF HasBoth(src)
    THEN {src.rows[i].sample_id :
            i \in {i \in DOMAIN src.rows :
                     /\ src.rows[i].well_index = w
                     /\ src.rows[i].sample_id \notin {None, NaN}}}
    ELSE {}

\* The source has a row for well w whose sample_id is null.
HasNullRow(src, w) ==
    /\ HasBoth(src)
    /\ \E i \in DOMAIN src.rows :
          src.rows[i].well_index = w /\ src.rows[i].sample_id \in {None, NaN}

\* A call of add_samples, alone or from the constructor, has just returned.
Assigned ==
    constructed /\ last.op \in {"add_samples", "__post_init__"} /\ last.raised = ""

\* C1: construction of an r x c plate (r in 1..26) gives exactly r*c records
\* in column-major order: the k-th record (0-based) has column (k div r) + 1
\* and row letter chr('A' + k mod r), its well_index is the letter followed
\* by the column number, and no two records share a well_index.
C1_ConstructColumnMajor ==
    constructed =>
        /\ Len(df) = rows * cols
        /\ \A k \in 1..Len(df) :
              /\ df[k].column = ((k - 1) \div rows) + 1
              /\ df[k].row = chr65((k - 1) % rows)
              /\ df[k].well_index = df[k].row \o IntStr(df[k].column)
              /\ Len(df[k].well_index) = (IF df[k].column < 10 THEN 2 ELSE 3)
        /\ \A j, k \in 1..Len(df) : j # k => df[j].well_index # df[k].well_index

C1_Witness == constructed /\ rows = 26 /\ cols >= 10

\* C2: after construction and any sequence of add_samples calls the plate
\* holds exactly rows*cols records whose well_index sequence is the one of
\* construction (nothing added, removed, duplicated or reordered).
C2_RecordsFixed ==
    constructed =>
        /\ Len(df) = rows * cols
        /\ \A k \in 1..Len(df) :
              df[k].well_index
                  = chr65((k - 1) % rows) \o IntStr(((k - 1) \div rows) + 1)

\* C3: print_matrix shows, in the data line of row letter i at column
\* position j, the sample_id of the well whose well_index is that letter
\* followed by j, for every well of the plate.
C3_MatrixShowsOwnWell ==
    (last.op = "print_matrix" /\ last.raised = "") =>
        \A i \in 1..rows :
            stdout[3 + i] =
                chr65(i - 1) \o "  "
                \o Join([j \in 1..cols |-> Field(SampleOf(WellIndex(i - 1, j)))])

\* C4: add_samples never changes the sample_id of a well the source does not
\* match: not for a mapping without the key, not for a table without a row
\* of that well; for an absent source nothing changes and nothing is raised.
C4_UnmatchedKept ==
    [][ last'.op = "add_samples" =>
          /\ last'.src.type = "NoneType" => (df' = df /\ last'.raised = "")
          /\ \A w \in PlateWells(df) :
                ~Matches(last'.src, w) => SampleSeq(df', w) = SampleSeq(df, w)
      ]_vars

C4_Witness ==
    /\ last.op = "add_samples"
    /\ last.raised = ""
    /\ last.src.type \in {"dict", "DataFrame"}
    /\ \E w \in PlateWells(df) : Matches(last.src, w)
    /\ \E k \in DOMAIN df :
          ~Matches(last.src, df[k].well_index) /\ df[k].sample_id \in SampleIds

\* C5: after add_samples with a mapping or a table, every record of a well
\* the call gave a present value for holds a value that call gave for it
\* (full overwrite, last writer wins, whatever the well held before).
C5_LastWriterWins ==
    Assigned =>
        \A k \in DOMAIN df :
            PresentValues(last.src, df[k].well_index) # {}
                => df[k].sample_id \in PresentValues(last.src, df[k].well_index)

\* C6: for a table, a well matched by a row whose sample_id is null keeps the
\* sample_id it had before the call, and a well matched by a row with a
\* non-null sample_id takes that value.
C6_NullRowKeeps ==
    [][ (last'.op = "add_samples" /\ HasBoth(last'.src)) =>
          \A w \in PlateWells(df) :
              Matches(last'.src, w) =>
                  SampleSet(df', w) =
                      PresentValues(last'.src, w)
                      \cup (IF HasNullRow(last'.src, w)
                            THEN SampleSet(df, w) ELSE {})
      ]_vars

C6_Witness ==
    /\ last.op = "add_samples"
    /\ HasBoth(last.src)
    /\ \E k \in DOMAIN df :
          /\ HasNullRow(last.src, df[k].well_index)
          /\ PresentValues(last.src, df[k].well_index) = {}
          /\ df[k].sample_id \in SampleIds
    /\ \E k \in DOMAIN df :
          /\ ~HasNullRow(last.src, df[k].well_index)
          /\ PresentValues(last.src, df[k].well_index) = {df[k].sample_id}

\* C7: add_samples with a table lacking the well_index or the sample_id
\* column raises the ValueError of the column check, and the records (count,
\* order, every sample_id) are as before the call; a constructor given such
\* a table raises the same and leaves no plate.
C7_MissingColumnRejected ==
    [][ (last'.op \in {"add_samples", "__post_init__"} /\ LacksOne(last'.src)) =>
          /\ last'.raised = "ValueError"
          /\ df' = df
          /\ constructed' = constructed
      ]_vars

C7_Witness ==
    /\ last.op = "add_samples"
    /\ LacksOne(last.src)
    /\ last.src.rows # <<>>
    /\ last.raised = "ValueError"
    /\ \E k \in DOMAIN df : df[k].sample_id \in SampleIds

\* C8: add_samples, and the constructor that delegates to it, given a source
\* that is neither absent, a mapping nor a table, raise an error.
C8_InvalidRaises ==
    (last.op \in {"add_samples", "__post_init__"}
        /\ last.src.type \notin {"NoneType", "dict", "DataFrame"})
    => last.raised # ""

\* C9: after construction and any sequence of add_samples calls, print_matrix
\* prints the plate, each well with no sample_id as the centered dash and each
\* well with a sample_id as that value centered in a 10-wide field, at the
\* well's own row and column.
C9_UnsetIsDash ==
    last.op = "print_matrix" =>
        /\ last.raised = ""
        /\ Len(stdout) = 3 + rows
        /\ \A i \in 1..rows :
              stdout[3 + i] =
                  chr65(i - 1) \o "  "
                  \o Join([j \in 1..cols |->
                             IF SampleOf(WellIndex(i - 1, j)) = None
                             THEN "    -     "
                             ELSE Center(SampleOf(WellIndex(i - 1, j))[2])])

\* C10: in every state after construction every record's plate_name is the
\* plate's name and every record's plate_id the plate's id, whatever mapping
\* or table (one with a plate_name column of its own included) was assigned.
C10_LabelsUniform ==
    constructed =>
        \A k \in DOMAIN df :
            df[k].plate_name = plate_name /\ df[k].plate_id = plate_id

C10_Witness ==
    /\ Assigned
    /\ last.op = "add_samples"
    /\ HasBoth(last.src)
    /\ "plate_name" \in last.src.columns
    /\ \E i \in DOMAIN last.src.rows :
          /\ last.src.rows[i].well_index \in PlateWells(df)
          /\ last.src.rows[i].plate_name # plate_name
    /\ \E i \in DOMAIN last.src.rows :
          last.src.rows[i].well_index \notin PlateWells(df)

====
